---- MODULE Spec2Model ----
(***************************************************************************)
(* Model of the banking service: the contract-checked BankAccount          *)
(* (app/banking.py) and the request adapter over the in-memory account     *)
(* store (app/api.py).                                                     *)
(*                                                                         *)
(* Amounts and balances are integers (a count of the smallest currency     *)
(* unit); account objects live in a heap and are named by their index, so  *)
(* that object identity and account_id are different things.               *)
(* A violation message is the sequence of the words of its text, so that   *)
(* the adapter's substring tests are computed, not assumed.  Where accounts *)
(* carry the identifiers of IdNames, single words that occur in none of    *)
(* the tested phrases, a message is its contract's description; the values *)
(* appended to it are modelled where identifiers are free (SpecClassify).  *)
(***************************************************************************)
EXTENDS Integers, Sequences, FiniteSets, TLC

\* ---- bounds of the exploration ------------------------------------------
MaxBalance == 2
MaxAmount == 2
MaxObjs == 2
NumIds == 2
MaxTotal == 2

IdNames == <<"alice", "bob", "carol", "dave">>
Ids == {IdNames[i] : i \in 1..NumIds}
Amounts == (0 - 1)..MaxAmount
InitialBalances == (0 - 1)..MaxBalance

VARIABLES heap, accounts, call, request, response, deposited, withdrawn,
          trip, inflight, ledger, raised

vars == <<heap, accounts, call, request, response, deposited, withdrawn,
          trip, inflight, ledger, raised>>

Refs == DOMAIN heap

\* ---- violation messages ---------------------------------------------------
NoViolation == <<>>
InitialBalanceMsg == <<"Initial", "balance", "must", "be", ">=", "0">>
InvariantMsg == <<"Balance", "must", "never", "be", "negative">>
DepositPositiveMsg == <<"Deposit", "amount", "must", "be", "positive">>
DepositEnsureMsg ==
    <<"Balance", "must", "increase", "by", "exactly", "the", "deposit", "amount">>
WithdrawPositiveMsg == <<"Withdrawal", "amount", "must", "be", "positive">>
WithdrawFundsMsg == <<"Insufficient", "funds", "for", "withdrawal">>
WithdrawEnsureMsg ==
    <<"Balance", "must", "decrease", "by", "exactly", "the", "withdrawal", "amount">>
TransferSameMsg == <<"Cannot", "transfer", "to", "the", "same", "account">>
TransferPositiveMsg == <<"Transfer", "amount", "must", "be", "positive">>
TransferFundsMsg == <<"Insufficient", "funds", "for", "transfer">>
TransferSourceEnsureMsg ==
    <<"Source", "balance", "must", "decrease", "by", "transfer", "amount">>
TransferDestEnsureMsg ==
    <<"Destination", "balance", "must", "increase", "by", "transfer", "amount">>

\* "sub in text": sub occurs in text as a contiguous run of words
Contains(text, sub) ==
    \E i \in 0..(Len(text) - Len(sub)) :
        \A j \in 1..Len(sub) : text[i + j] = sub[j]

\* handle_contract_violation: the category of a violation text
handle_contract_violation(error_message, context) ==
    IF Contains(error_message, <<"Insufficient", "funds">>)
    THEN [error |-> "insufficient_funds", message |-> error_message, context |-> context]
    ELSE IF Contains(error_message, <<"same", "account">>)
    THEN [error |-> "invalid_transfer", message |-> error_message, context |-> context]
    ELSE IF Contains(error_message, <<"must", "be", "positive">>)
    THEN [error |-> "invalid_amount", message |-> error_message, context |-> context]
    ELSE [error |-> "contract_violation", message |-> error_message, context |-> context]

\* ---- contract machinery ---------------------------------------------------
Check(holds, message) == [holds |-> holds, message |-> message]

\* the message of the first check of the sequence that does not hold
FirstViolated(checks) ==
    IF \A i \in DOMAIN checks : checks[i].holds
    THEN NoViolation
    ELSE checks[CHOOSE i \in DOMAIN checks :
                   /\ ~checks[i].holds
                   /\ \A j \in 1..(i - 1) : checks[j].holds].message

\* A stack of contract decorators, listed as written (top to bottom), is
\* applied innermost first: each decorator appends its contract to the
\* checker's list, and the checker walks the list from its first entry.
decorator_order(stack) ==
    [i \in 1..Len(stack) |-> stack[Len(stack) + 1 - i]]

\* class invariant of BankAccount
invariant(h, self) == Check(h[self].balance >= 0, InvariantMsg)

\* what a call leaves behind; checked holds the objects whose class invariant
\* was evaluated after the body ran
Outcome(h, message) ==
    [heap |-> h, ok |-> message = NoViolation, message |-> message, checked |-> {}]

\* the class invariant is evaluated on the object the method was called on
Checked(out, instances) == [out EXCEPT !.checked = instances]

\* ---- BankAccount ------------------------------------------------------------
\* __init__: the negative initial balance is refused before any field is set
Mut_BankAccount_init(h, account_id, initial_balance) ==
    IF initial_balance <= 0
    THEN Outcome(h, InitialBalanceMsg)
    ELSE LET h1 == Append(h, [account_id |-> account_id, balance |-> initial_balance])
         IN Outcome(h1, FirstViolated(<<invariant(h1, Len(h1))>>))

BankAccount_init(h, account_id, initial_balance) ==
    IF initial_balance < 0
    THEN Outcome(h, InitialBalanceMsg)
    ELSE LET h1 == Append(h, [account_id |-> account_id, balance |-> initial_balance])
         IN Checked(Outcome(h1, FirstViolated(<<invariant(h1, Len(h1))>>)),
                    {Len(h1)})

\* deposit
Mut_deposit_require(h, self, amount) ==
    <<Check(amount >= 0, DepositPositiveMsg)>>

deposit_require(h, self, amount) ==
    <<Check(amount > 0, DepositPositiveMsg)>>

\* the balance is one value shared by every account
Mut_deposit_body_shared(h, self, amount) ==
    [r \in DOMAIN h |-> [h[r] EXCEPT !.balance = @ + amount]]

Mut_deposit_body(h, self, amount) ==
    [h EXCEPT ![self].balance = amount]

deposit_body(h, self, amount) ==
    [h EXCEPT ![self].balance = @ + amount]

deposit_ensure(h, OLD, self, amount) ==
    <<Check(h[self].balance = OLD[self].balance + amount, DepositEnsureMsg)>>

BankAccount_deposit(h, self, amount) ==
    LET pre == FirstViolated(decorator_order(deposit_require(h, self, amount)))
        h1 == deposit_body(h, self, amount)
    IN IF pre # NoViolation
       THEN Outcome(h, pre)
       ELSE Checked(Outcome(h1, FirstViolated(
                        decorator_order(deposit_ensure(h1, h, self, amount))
                        \o <<invariant(h1, self)>>)), {self})

\* withdraw
Mut_withdraw_require(h, self, amount) ==
    <<Check(amount > 0, WithdrawPositiveMsg)>>

withdraw_require(h, self, amount) ==
    <<Check(amount > 0, WithdrawPositiveMsg),
      Check(h[self].balance >= amount, WithdrawFundsMsg)>>

Mut_withdraw_body(h, self, amount) ==
    [h EXCEPT ![self].balance = amount - @]

withdraw_body(h, self, amount) ==
    [h EXCEPT ![self].balance = @ - amount]

withdraw_ensure(h, OLD, self, amount) ==
    <<Check(h[self].balance = OLD[self].balance - amount, WithdrawEnsureMsg)>>

BankAccount_withdraw(h, self, amount) ==
    LET pre == FirstViolated(decorator_order(withdraw_require(h, self, amount)))
        h1 == withdraw_body(h, self, amount)
    IN IF pre # NoViolation
       THEN Outcome(h, pre)
       ELSE Checked(Outcome(h1, FirstViolated(
                        decorator_order(withdraw_ensure(h1, h, self, amount))
                        \o <<invariant(h1, self)>>)), {self})

\* transfer_to; self != other compares the two objects (the class defines no
\* equality of its own), not their account_id
Mut_transfer_to_require(h, self, other, amount) ==
    <<Check(self # other, TransferSameMsg),
      Check(amount > 0, TransferPositiveMsg)>>

\* the same-account test compares the identifiers of the two accounts
Mut_transfer_to_require_by_id(h, self, other, amount) ==
    <<Check(h[self].account_id # h[other].account_id, TransferSameMsg),
      Check(amount > 0, TransferPositiveMsg),
      Check(h[self].balance >= amount, TransferFundsMsg)>>

transfer_to_require(h, self, other, amount) ==
    <<Check(self # other, TransferSameMsg),
      Check(amount > 0, TransferPositiveMsg),
      Check(h[self].balance >= amount, TransferFundsMsg)>>

Mut_transfer_to_body(h, self, other, amount) ==
    [h EXCEPT ![self].balance = @ - amount]

transfer_to_body(h, self, other, amount) ==
    LET h1 == [h EXCEPT ![self].balance = @ - amount]
    IN [h1 EXCEPT ![other].balance = @ + amount]

\* the destination's postcondition is left out
Mut_transfer_to_ensure(h, OLD, self, other, amount) ==
    <<Check(h[self].balance = OLD[self].balance - amount, TransferSourceEnsureMsg)>>

transfer_to_ensure(h, OLD, self, other, amount) ==
    <<Check(h[self].balance = OLD[self].balance - amount, TransferSourceEnsureMsg),
      Check(h[other].balance = OLD[other].balance + amount, TransferDestEnsureMsg)>>

\* what is checked once the body of transfer_to has turned OLD into h: the
\* postconditions, then the class invariant of self; other is an argument
\* of the call and its invariant is not evaluated
transfer_to_post(h, OLD, self, other, amount) ==
    Checked(Outcome(h, FirstViolated(
                decorator_order(transfer_to_ensure(h, OLD, self, other, amount))
                \o <<invariant(h, self)>>)), {self})

BankAccount_transfer_to(h, self, other, amount) ==
    LET pre == FirstViolated(decorator_order(transfer_to_require(h, self, other, amount)))
        h1 == transfer_to_body(h, self, other, amount)
    IN IF pre # NoViolation
       THEN Outcome(h, pre)
       ELSE transfer_to_post(h1, h, self, other, amount)

\* ---- a client of the account model ---------------------------------------
NoCall == [op |-> "none", account_id |-> "", self |-> 0, other |-> 0, amount |-> 0,
           old |-> <<>>, ok |-> TRUE, message |-> NoViolation, checked |-> {}]
NoRequest == [op |-> "none", account_id |-> "", to_id |-> "", amount |-> 0,
              old |-> <<>>, old_accounts |-> <<>>]
NoResponse == [status |-> 0, error |-> "", message |-> <<>>, context |-> ""]

CallRecord(op, self, other, amount, out) ==
    [op |-> op, account_id |-> "", self |-> self, other |-> other, amount |-> amount,
     old |-> heap, ok |-> out.ok, message |-> out.message, checked |-> out.checked]

\* a violation handed to handle_contract_violation and the detail returned
NoDetail == [error |-> "", message |-> <<>>, context |-> ""]
NoRaised == [message |-> <<>>, context |-> "", intended |-> "", detail |-> NoDetail]

\* the deposit the client made last, and whether the call after it withdrew
\* the same amount from the same account
NoTrip == [stage |-> "none", self |-> 0, amount |-> 0, before |-> 0, ok |-> FALSE]

\* the clients of the adapter and the request each has in flight; ledger is
\* the net amount the successful responses have reported for each identifier
Clients == {"c1", "c2"}
Idle == [op |-> "none", account_id |-> "", to_id |-> "", amount |-> 0]

Init ==
    /\ heap = <<>>
    /\ accounts = <<>>
    /\ call = NoCall
    /\ request = NoRequest
    /\ response = NoResponse
    /\ deposited = 0
    /\ withdrawn = 0
    /\ trip = NoTrip
    /\ inflight = [c \in Clients |-> Idle]
    /\ ledger = [id \in Ids |-> 0]
    /\ raised = NoRaised

\* the identifiers a client of the account model gives its accounts: two are
\* enough for accounts that share an identifier and accounts that do not
ConstructIds == {IdNames[1], IdNames[2]}

Construct ==
    \E account_id \in ConstructIds, initial_balance \in InitialBalances :
        LET out == BankAccount_init(heap, account_id, initial_balance)
        IN /\ Len(heap) < MaxObjs
           /\ heap' = out.heap
           /\ call' = [CallRecord("__init__", IF out.ok THEN Len(out.heap) ELSE 0,
                                  0, initial_balance, out)
                          EXCEPT !.account_id = account_id]
           /\ trip' = NoTrip
           /\ UNCHANGED <<accounts, request, response, deposited, withdrawn,
                          inflight, ledger, raised>>

Deposit ==
    \E self \in Refs, amount \in Amounts :
        LET out == BankAccount_deposit(heap, self, amount)
        IN /\ heap[self].balance + amount <= MaxBalance
           /\ heap' = out.heap
           /\ call' = CallRecord("deposit", self, 0, amount, out)
           /\ trip' = [stage |-> "deposited", self |-> self, amount |-> amount,
                       before |-> heap[self].balance, ok |-> out.ok]
           /\ UNCHANGED <<accounts, request, response, deposited, withdrawn,
                          inflight, ledger, raised>>

Withdraw ==
    \E self \in Refs, amount \in Amounts :
        LET out == BankAccount_withdraw(heap, self, amount)
        IN /\ heap' = out.heap
           /\ call' = CallRecord("withdraw", self, 0, amount, out)
           /\ trip' = IF /\ trip.stage = "deposited"
                         /\ trip.self = self
                         /\ trip.amount = amount
                      THEN [trip EXCEPT !.stage = "withdrawn"]
                      ELSE NoTrip
           /\ UNCHANGED <<accounts, request, response, deposited, withdrawn,
                          inflight, ledger, raised>>

TransferTo ==
    \E self \in Refs, other \in Refs, amount \in Amounts :
        LET out == BankAccount_transfer_to(heap, self, other, amount)
        IN /\ heap[other].balance + amount <= MaxBalance
           /\ heap' = out.heap
           /\ call' = CallRecord("transfer_to", self, other, amount, out)
           /\ trip' = NoTrip
           /\ UNCHANGED <<accounts, request, response, deposited, withdrawn,
                          inflight, ledger, raised>>

Next == Construct \/ Deposit \/ Withdraw \/ TransferTo

Spec == Init /\ [][Next]_vars

\* a client that holds three accounts and calls their operations
FrameIds == <<"alice", "bob", "carol">>

InitFrame ==
    /\ heap \in {[i \in DOMAIN FrameIds |-> [account_id |-> FrameIds[i], balance |-> b[i]]] :
                    b \in [DOMAIN FrameIds -> 0..MaxBalance]}
    /\ accounts = <<>>
    /\ call = NoCall
    /\ request = NoRequest
    /\ response = NoResponse
    /\ deposited = 0
    /\ withdrawn = 0
    /\ trip = NoTrip
    /\ inflight = [c \in Clients |-> Idle]
    /\ ledger = [id \in Ids |-> 0]
    /\ raised = NoRaised

NextFrame == Deposit \/ Withdraw \/ TransferTo

SpecFrame == InitFrame /\ [][NextFrame]_vars

\* ---- the checks of transfer_to against an arbitrary mutation step ----------
\* The postconditions and the invariant exist to catch a body that does not
\* do what it should.  TransferToAnyBody is one transfer_to call, from a state
\* the accounts can be in, whose body may leave any two balances behind; the
\* preconditions and the checks after the body are those of the code.
BodyBalances == (0 - 1)..(MaxBalance + MaxAmount)

TransferToAnyBody ==
    \E self \in Refs, other \in Refs, amount \in Amounts,
       self_balance \in BodyBalances, other_balance \in BodyBalances :
        LET pre == FirstViolated(decorator_order(
                       transfer_to_require(heap, self, other, amount)))
            h1 == [heap EXCEPT ![self].balance = self_balance,
                               ![other].balance = other_balance]
            out == IF pre # NoViolation
                   THEN Outcome(heap, pre)
                   ELSE transfer_to_post(h1, heap, self, other, amount)
        IN /\ call.op = "none"
           /\ heap' = out.heap
           /\ call' = CallRecord("transfer_to", self, other, amount, out)
           /\ UNCHANGED <<accounts, request, response, deposited, withdrawn,
                          trip, inflight, ledger, raised>>

NextFault == TransferToAnyBody

SpecFault == InitFrame /\ [][NextFault]_vars

\* ---- the request adapter ----------------------------------------------------
\* get_or_create_account: the account stored under account_id, created with
\* balance 0 when the store has no such key
Mut_get_or_create_account(h, accts, account_id) ==
    IF account_id \notin DOMAIN accts
    THEN LET h1 == BankAccount_init(h, account_id, 1).heap
         IN [heap |-> h1, accounts |-> accts @@ (account_id :> Len(h1)),
             account |-> Len(h1)]
    ELSE [heap |-> h, accounts |-> accts, account |-> accts[account_id]]

\* the lookup of a present key is lost: a fresh account replaces the stored one
Mut_get_or_create_account_always(h, accts, account_id) ==
    LET h1 == BankAccount_init(h, account_id, 0).heap
    IN [heap |-> h1,
        accounts |-> [k \in DOMAIN accts \cup {account_id} |->
                         IF k = account_id THEN Len(h1) ELSE accts[k]],
        account |-> Len(h1)]

\* the created account is returned but never stored
Mut_get_or_create_account_unstored(h, accts, account_id) ==
    IF account_id \notin DOMAIN accts
    THEN LET h1 == BankAccount_init(h, account_id, 0).heap
         IN [heap |-> h1, accounts |-> accts, account |-> Len(h1)]
    ELSE [heap |-> h, accounts |-> accts, account |-> accts[account_id]]

get_or_create_account(h, accts, account_id) ==
    IF account_id \notin DOMAIN accts
    THEN LET h1 == BankAccount_init(h, account_id, 0).heap
         IN [heap |-> h1, accounts |-> accts @@ (account_id :> Len(h1)),
             account |-> Len(h1)]
    ELSE [heap |-> h, accounts |-> accts, account |-> accts[account_id]]

EndpointCheck(holds, status_code, description) ==
    [holds |-> holds, message |-> [status_code |-> status_code, description |-> description]]

\* an amount of zero is admitted
Mut_deposit_endpoint_require(amount) ==
    <<EndpointCheck(amount >= 0, 422, DepositPositiveMsg)>>

deposit_endpoint_require(amount) ==
    <<EndpointCheck(amount > 0, 422, DepositPositiveMsg)>>

Mut_withdraw_endpoint_require(amount) ==
    <<EndpointCheck(amount > 0, 400, WithdrawPositiveMsg)>>

withdraw_endpoint_require(amount) ==
    <<EndpointCheck(amount > 0, 422, WithdrawPositiveMsg)>>

\* the two identifiers are not compared
Mut_transfer_endpoint_require(from_id, to_id, amount) ==
    <<EndpointCheck(amount > 0, 422, TransferPositiveMsg)>>

transfer_endpoint_require(from_id, to_id, amount) ==
    <<EndpointCheck(amount > 0, 422, TransferPositiveMsg),
      EndpointCheck(from_id # to_id, 422, TransferSameMsg)>>

\* responses: error and context are "" and message is <<>> when the response
\* body has no such field; text is a detail that is plain text
Success(body) ==
    [status |-> 200, error |-> "", message |-> <<>>, context |-> "", text |-> <<>>,
     body |-> body]

\* an endpoint precondition that fails is answered by the contract library
\* with the contract's status code and its description as the detail
PreconditionFailed(violated) ==
    [status |-> violated.status_code, error |-> "", message |-> <<>>, context |-> "",
     text |-> violated.description, body |-> <<>>]

\* raise HTTPException(status_code=409, detail=handle_contract_violation(e, context))
Conflict(detail) ==
    [status |-> 409, error |-> detail.error, message |-> detail.message,
     context |-> detail.context, text |-> <<>>, body |-> <<>>]

\* a ViolationError that leaves the handler is an internal server error
Unhandled ==
    [status |-> 500, error |-> "", message |-> <<>>, context |-> "", text |-> <<>>,
     body |-> <<>>]

AccountInfo(h, account) ==
    [account_id |-> h[account].account_id, balance |-> h[account].balance]

RequestRecord(op, account_id, to_id, amount) ==
    [op |-> op, account_id |-> account_id, to_id |-> to_id, amount |-> amount,
     old |-> heap, old_accounts |-> accounts]

\* what a handler body leaves behind: the store, the model call it made and
\* the response it returns
Served(h, accts, made, resp) ==
    [heap |-> h, accounts |-> accts, call |-> made, response |-> resp]

\* the body of deposit: no try/except, a violation leaves the handler
deposit_handler(h, accts, account_id, amount) ==
    LET got == get_or_create_account(h, accts, account_id)
        out == BankAccount_deposit(got.heap, got.account, amount)
    IN Served(out.heap, got.accounts,
              [CallRecord("deposit", got.account, 0, amount, out)
                  EXCEPT !.old = got.heap],
              IF out.ok
              THEN Success(<<AccountInfo(out.heap, got.account)>>)
              ELSE Unhandled)

\* the body of withdraw
withdraw_handler(h, accts, account_id, amount) ==
    LET got == get_or_create_account(h, accts, account_id)
        out == BankAccount_withdraw(got.heap, got.account, amount)
    IN Served(out.heap, got.accounts,
              [CallRecord("withdraw", got.account, 0, amount, out)
                  EXCEPT !.old = got.heap],
              IF out.ok
              THEN Success(<<AccountInfo(out.heap, got.account)>>)
              ELSE IF Contains(out.message, <<"Insufficient", "funds">>)
              THEN Conflict(handle_contract_violation(out.message, "withdraw"))
              ELSE Unhandled)

\* the body of transfer
transfer_handler(h, accts, from_id, to_id, amount) ==
    LET got_from == get_or_create_account(h, accts, from_id)
        got_to == get_or_create_account(got_from.heap, got_from.accounts, to_id)
        out == BankAccount_transfer_to(got_to.heap, got_from.account,
                                       got_to.account, amount)
    IN Served(out.heap, got_to.accounts,
              [CallRecord("transfer_to", got_from.account, got_to.account,
                          amount, out)
                  EXCEPT !.old = got_to.heap],
              IF out.ok
              THEN Success(<<AccountInfo(out.heap, got_from.account),
                             AccountInfo(out.heap, got_to.account)>>)
              ELSE IF Contains(out.message, <<"Insufficient", "funds">>)
              THEN Conflict(handle_contract_violation(out.message, "transfer"))
              ELSE Unhandled)

\* POST /deposit
deposit ==
    \E account_id \in Ids, amount \in Amounts :
        LET violated == FirstViolated(decorator_order(deposit_endpoint_require(amount)))
            served == deposit_handler(heap, accounts, account_id, amount)
        IN /\ amount > 0 => deposited + amount <= MaxTotal
           /\ request' = RequestRecord("deposit", account_id, "", amount)
           /\ IF violated # NoViolation
              THEN /\ response' = PreconditionFailed(violated)
                   /\ call' = NoCall
                   /\ UNCHANGED <<heap, accounts, deposited>>
              ELSE /\ heap' = served.heap
                   /\ accounts' = served.accounts
                   /\ call' = served.call
                   /\ response' = served.response
                   /\ deposited' = IF served.call.ok THEN deposited + amount
                                   ELSE deposited
           /\ UNCHANGED <<withdrawn, trip, inflight, ledger, raised>>

\* POST /withdraw
withdraw ==
    \E account_id \in Ids, amount \in Amounts :
        LET violated == FirstViolated(decorator_order(withdraw_endpoint_require(amount)))
            served == withdraw_handler(heap, accounts, account_id, amount)
        IN /\ request' = RequestRecord("withdraw", account_id, "", amount)
           /\ IF violated # NoViolation
              THEN /\ response' = PreconditionFailed(violated)
                   /\ call' = NoCall
                   /\ UNCHANGED <<heap, accounts, withdrawn>>
              ELSE /\ heap' = served.heap
                   /\ accounts' = served.accounts
                   /\ call' = served.call
                   /\ response' = served.response
                   /\ withdrawn' = IF served.call.ok THEN withdrawn + amount
                                   ELSE withdrawn
           /\ UNCHANGED <<deposited, trip, inflight, ledger, raised>>

\* POST /transfer
transfer ==
    \E from_id \in Ids, to_id \in Ids, amount \in Amounts :
        LET violated == FirstViolated(decorator_order(
                            transfer_endpoint_require(from_id, to_id, amount)))
            served == transfer_handler(heap, accounts, from_id, to_id, amount)
        IN /\ request' = RequestRecord("transfer", from_id, to_id, amount)
           /\ IF violated # NoViolation
              THEN /\ response' = PreconditionFailed(violated)
                   /\ call' = NoCall
                   /\ UNCHANGED <<heap, accounts>>
              ELSE /\ heap' = served.heap
                   /\ accounts' = served.accounts
                   /\ call' = served.call
                   /\ response' = served.response
           /\ UNCHANGED <<deposited, withdrawn, trip, inflight, ledger, raised>>

\* GET /account/{account_id}
get_account ==
    \E account_id \in Ids :
        LET got == get_or_create_account(heap, accounts, account_id)
        IN /\ request' = RequestRecord("get_account", account_id, "", 0)
           /\ heap' = got.heap
           /\ accounts' = got.accounts
           /\ call' = NoCall
           /\ response' = Success(<<AccountInfo(got.heap, got.account)>>)
           /\ UNCHANGED <<deposited, withdrawn, trip, inflight, ledger, raised>>

Mut_clear_accounts ==
    /\ request' = RequestRecord("clear_accounts", "", "", 0)
    /\ call' = NoCall
    /\ response' = Success(<<>>)
    /\ deposited' = 0
    /\ withdrawn' = 0
    /\ UNCHANGED <<heap, accounts, trip, inflight, ledger, raised>>

\* DELETE /accounts; the accounts dropped from the store are unreachable and
\* leave the heap with it
clear_accounts ==
    /\ request' = RequestRecord("clear_accounts", "", "", 0)
    /\ accounts' = <<>>
    /\ heap' = <<>>
    /\ call' = NoCall
    /\ response' = Success(<<>>)
    /\ deposited' = 0
    /\ withdrawn' = 0
    /\ UNCHANGED <<trip, inflight, ledger, raised>>

\* GET /health
health_check ==
    /\ request' = RequestRecord("health_check", "", "", 0)
    /\ call' = NoCall
    /\ response' = Success(<<>>)
    /\ UNCHANGED <<heap, accounts, deposited, withdrawn, trip, inflight, ledger, raised>>

NextApi ==
    deposit \/ withdraw \/ transfer \/ get_account \/ clear_accounts \/ health_check

SpecApi == Init /\ [][NextApi]_vars

\* ---- the texts handle_contract_violation is given ---------------------------
\* str(e) of a violation of a contract is the contract's description followed
\* by the condition and the values of the arguments the condition names; an
\* account among them is shown by __repr__, which prints its account_id.  The
\* violation raised by __init__ carries its text alone.  An account_id is any
\* string: AccountIdTexts are the words of some.
AccountIdTexts ==
    {<<"alice">>, <<"Insufficient", "funds">>, <<"same", "account">>,
     <<"must", "be", "positive">>}

BankAccount_repr(account_id) ==
    <<"BankAccount(id=">> \o account_id \o <<"balance=">>

\* the contracts of the account model: description, whether the condition
\* names self and other, and the category the failure stands for
Contract(description, self, other, intended) ==
    [description |-> description, self |-> self, other |-> other,
     intended |-> intended]

Contracts ==
    {Contract(InitialBalanceMsg, FALSE, FALSE, "contract_violation"),
     Contract(InvariantMsg, TRUE, FALSE, "contract_violation"),
     Contract(DepositPositiveMsg, FALSE, FALSE, "invalid_amount"),
     Contract(DepositEnsureMsg, TRUE, FALSE, "contract_violation"),
     Contract(WithdrawPositiveMsg, FALSE, FALSE, "invalid_amount"),
     Contract(WithdrawFundsMsg, TRUE, FALSE, "insufficient_funds"),
     Contract(WithdrawEnsureMsg, TRUE, FALSE, "contract_violation"),
     Contract(TransferSameMsg, TRUE, TRUE, "invalid_transfer"),
     Contract(TransferPositiveMsg, FALSE, FALSE, "invalid_amount"),
     Contract(TransferFundsMsg, TRUE, FALSE, "insufficient_funds"),
     Contract(TransferSourceEnsureMsg, TRUE, FALSE, "contract_violation"),
     Contract(TransferDestEnsureMsg, FALSE, TRUE, "contract_violation")}

ViolationText(contract, self_id, other_id) ==
    contract.description
    \o (IF contract.self THEN <<"self", "was">> \o BankAccount_repr(self_id)
        ELSE <<>>)
    \o (IF contract.other THEN <<"other", "was">> \o BankAccount_repr(other_id)
        ELSE <<>>)

Contexts == {"deposit", "withdraw", "transfer"}

InitClassify ==
    /\ heap = <<>>
    /\ accounts = <<>>
    /\ call = NoCall
    /\ request = NoRequest
    /\ response = NoResponse
    /\ deposited = 0
    /\ withdrawn = 0
    /\ trip = NoTrip
    /\ inflight = [c \in Clients |-> Idle]
    /\ ledger = [id \in Ids |-> 0]
    /\ \E contract \in Contracts, self_id \in AccountIdTexts,
          other_id \in AccountIdTexts, context \in Contexts :
          raised = [message |-> ViolationText(contract, self_id, other_id),
                    context |-> context, intended |-> contract.intended,
                    detail |-> NoDetail]

Classify ==
    /\ raised.detail = NoDetail
    /\ raised' = [raised EXCEPT
                    !.detail = handle_contract_violation(raised.message,
                                                         raised.context)]
    /\ UNCHANGED <<heap, accounts, call, request, response, deposited, withdrawn,
                   trip, inflight, ledger>>

NextClassify == Classify

SpecClassify == InitClassify /\ [][NextClassify]_vars

\* the sum of f over S
RECURSIVE SumOver(_, _)
SumOver(f, S) ==
    IF S = {} THEN 0
    ELSE LET x == CHOOSE y \in S : TRUE IN f[x] + SumOver(f, S \ {x})

\* ---- requests of several clients on one event loop ----
\* The handlers are coroutines without an await in their bodies: once the
\* event loop starts a handler it runs to its return before any other request
\* is served.  A request is in flight from its arrival to that run, and the
\* requests of different clients are served in any order.

Operations == {"deposit", "withdraw", "transfer"}

\* the two accounts the clients contend for
ConcIds == {IdNames[1], IdNames[2]}

endpoint_require(op, account_id, to_id, amount) ==
    CASE op = "deposit" -> deposit_endpoint_require(amount)
      [] op = "withdraw" -> withdraw_endpoint_require(amount)
      [] op = "transfer" -> transfer_endpoint_require(account_id, to_id, amount)

handler(h, accts, rq) ==
    CASE rq.op = "deposit" -> deposit_handler(h, accts, rq.account_id, rq.amount)
      [] rq.op = "withdraw" -> withdraw_handler(h, accts, rq.account_id, rq.amount)
      [] rq.op = "transfer" ->
            transfer_handler(h, accts, rq.account_id, rq.to_id, rq.amount)

\* the amount the deposits in flight will add
PendingDeposits ==
    SumOver([c \in Clients |-> IF inflight[c].op = "deposit"
                               THEN inflight[c].amount ELSE 0], Clients)

\* the net amounts after a response to rq with status 200
Booked(l, rq) ==
    CASE rq.op = "deposit" -> [l EXCEPT ![rq.account_id] = @ + rq.amount]
      [] rq.op = "withdraw" -> [l EXCEPT ![rq.account_id] = @ - rq.amount]
      [] rq.op = "transfer" -> [l EXCEPT ![rq.account_id] = @ - rq.amount,
                                         ![rq.to_id] = @ + rq.amount]

\* a request of client c arrives; the endpoint preconditions answer it at
\* once when they fail, otherwise it waits for its handler to run
Arrive(c) ==
    \E op \in Operations, account_id \in ConcIds, to_id \in ConcIds \cup {""},
       amount \in Amounts :
        LET violated == FirstViolated(decorator_order(
                            endpoint_require(op, account_id, to_id, amount)))
        IN /\ inflight[c] = Idle
           /\ (op = "transfer") = (to_id # "")
           /\ (op = "deposit" /\ amount > 0)
                => deposited + PendingDeposits + amount <= MaxTotal
           /\ IF violated # NoViolation
              THEN /\ response' = PreconditionFailed(violated)
                   /\ UNCHANGED inflight
              ELSE /\ inflight' = [inflight EXCEPT ![c] =
                                      [op |-> op, account_id |-> account_id,
                                       to_id |-> to_id, amount |-> amount]]
                   /\ UNCHANGED response
           /\ UNCHANGED <<heap, accounts, call, request, deposited, withdrawn,
                          trip, ledger, raised>>

\* the event loop runs the handler of client c's request to its return
Serve(c) ==
    LET rq == inflight[c]
        served == handler(heap, accounts, rq)
        ok == served.response.status = 200
    IN /\ rq # Idle
       /\ heap' = served.heap
       /\ accounts' = served.accounts
       /\ response' = served.response
       /\ ledger' = IF ok THEN Booked(ledger, rq) ELSE ledger
       /\ deposited' = IF ok /\ rq.op = "deposit" THEN deposited + rq.amount
                       ELSE deposited
       /\ withdrawn' = IF ok /\ rq.op = "withdraw" THEN withdrawn + rq.amount
                       ELSE withdrawn
       /\ inflight' = [inflight EXCEPT ![c] = Idle]
       /\ UNCHANGED <<call, request, trip, raised>>

NextConc == \E c \in Clients : Arrive(c) \/ Serve(c)

SpecConc == Init /\ [][NextConc]_vars

\* ---- properties ---------------------------------------------------------------
Category(message) == handle_contract_violation(message, "").error

\* the sum of the balances of the accounts the store accts holds in heap h
StoreTotal(h, accts) ==
    SumOver([k \in DOMAIN accts |-> h[accts[k]].balance], DOMAIN accts)

\* C1: in every reachable state, after construction and after every deposit,
\* withdraw and transfer_to call, accepted or rejected, every account's
\* balance is >= 0.
C1_BalanceNeverNegative ==
    \A r \in Refs : heap[r].balance >= 0

C1_Witness ==
    /\ call.op = "withdraw"
    /\ ~call.ok
    /\ \E r \in Refs : heap[r].balance = 0
    /\ \E r \in Refs : heap[r].balance > 0

\* C2: a transfer between two distinct accounts of an amount in (0, B1]
\* succeeds, leaves the source at B1 - amount and the destination at
\* B2 + amount, and keeps the sum of the two balances.
C2_TransferMovesAmount ==
    (/\ call.op = "transfer_to"
     /\ call.self # call.other
     /\ 0 < call.amount
     /\ call.amount <= call.old[call.self].balance)
    => /\ call.ok
       /\ heap[call.self].balance = call.old[call.self].balance - call.amount
       /\ heap[call.other].balance = call.old[call.other].balance + call.amount
       /\ heap[call.self].balance + heap[call.other].balance
            = call.old[call.self].balance + call.old[call.other].balance

C2_Witness ==
    /\ call.op = "transfer_to"
    /\ call.ok
    /\ call.self # call.other
    /\ call.amount = call.old[call.self].balance
    /\ call.old[call.other].balance > 0

\* the last transfer_to call had a failing precondition
TransferPreconditionFails ==
    \/ call.self = call.other
    \/ call.amount <= 0
    \/ call.amount > call.old[call.self].balance

\* the last transfer_to call applied its debit and its credit
TransferBothApplied ==
    /\ call.self # call.other
    /\ heap[call.self].balance = call.old[call.self].balance - call.amount
    /\ heap[call.other].balance = call.old[call.other].balance + call.amount

\* C3: a transfer_to call ends with both the debit and the credit applied or
\* with neither; when a precondition fails (same account, amount <= 0,
\* amount > source balance) the call is rejected and no balance has changed.
C3_TransferAllOrNothing ==
    call.op = "transfer_to"
    => /\ heap = call.old \/ TransferBothApplied
       /\ TransferPreconditionFails => (~call.ok /\ heap = call.old)

C3_Witness ==
    /\ call.op = "transfer_to"
    /\ call.self # call.other
    /\ call.amount > call.old[call.self].balance
    /\ call.old[call.self].balance > 0
    /\ ~call.ok

\* C4: the balances of the accounts in the store add up to the successful
\* deposits minus the successful withdrawals since the last reset, and a
\* transfer request, answered with success or not, leaves that sum as it was.
C4_StoreTotalConserved ==
    /\ StoreTotal(heap, accounts) = deposited - withdrawn
    /\ request.op = "transfer"
       => StoreTotal(heap, accounts) = StoreTotal(request.old, request.old_accounts)

C4_Witness ==
    /\ request.op = "transfer"
    /\ response.status = 200
    /\ withdrawn > 0
    /\ deposited > withdrawn

\* C5: a deposit of an amount > 0 into an account with balance B >= 0
\* succeeds and leaves the balance at B + amount, which is >= 0.
C5_DepositAddsAmount ==
    (call.op = "deposit" /\ call.amount > 0)
    => /\ call.ok
       /\ heap[call.self].balance = call.old[call.self].balance + call.amount
       /\ heap[call.self].balance >= 0

C5_Witness ==
    /\ call.op = "deposit"
    /\ call.ok
    /\ call.old[call.self].balance > 0
    /\ heap[call.self].balance = MaxBalance

\* C6: a withdrawal of an amount in (0, B] from an account with balance B
\* succeeds and leaves B - amount >= 0; withdrawing exactly B leaves 0.
C6_WithdrawSubtractsAmount ==
    (/\ call.op = "withdraw"
     /\ 0 < call.amount
     /\ call.amount <= call.old[call.self].balance)
    => /\ call.ok
       /\ heap[call.self].balance = call.old[call.self].balance - call.amount
       /\ heap[call.self].balance >= 0
       /\ call.amount = call.old[call.self].balance => heap[call.self].balance = 0

C6_Witness ==
    /\ call.op = "withdraw"
    /\ call.ok
    /\ call.amount = call.old[call.self].balance
    /\ heap[call.self].balance = 0

\* C7: a withdrawal of an amount greater than the balance B fails with
\* InsufficientFunds and the balance stays B.
C7_WithdrawTooMuchRejected ==
    (call.op = "withdraw" /\ call.amount > call.old[call.self].balance)
    => /\ ~call.ok
       /\ Category(call.message) = "insufficient_funds"
       /\ heap = call.old

C7_Witness ==
    /\ call.op = "withdraw"
    /\ call.old[call.self].balance = 0
    /\ call.amount > 0
    /\ ~call.ok

\* C8: a deposit or a withdrawal of an amount <= 0 fails with InvalidAmount
\* (a "must be positive" violation) and leaves the balance unchanged.
C8_NonPositiveAmountRejected ==
    (call.op \in {"deposit", "withdraw"} /\ call.amount <= 0)
    => /\ ~call.ok
       /\ Category(call.message) = "invalid_amount"
       /\ Contains(call.message, <<"must", "be", "positive">>)
       /\ heap = call.old

C8_WitnessDeposit ==
    /\ call.op = "deposit"
    /\ call.amount = 0
    /\ call.old[call.self].balance > 0
    /\ ~call.ok

\* C9: transfer_to reports the first failing precondition in the order same
\* account, amount positivity, sufficiency: a transfer to the account itself
\* fails with SameAccountTransfer for every amount; a transfer to another
\* account fails with InvalidAmount when amount <= 0 and with
\* InsufficientFunds when amount > 0 exceeds the source balance.
C9_TransferFailureOrder ==
    call.op = "transfer_to"
    => /\ call.self = call.other
          => (~call.ok /\ Category(call.message) = "invalid_transfer")
       /\ (call.self # call.other /\ call.amount <= 0)
          => (~call.ok /\ Category(call.message) = "invalid_amount")
       /\ (call.self # call.other /\ call.amount > 0
             /\ call.amount > call.old[call.self].balance)
          => (~call.ok /\ Category(call.message) = "insufficient_funds")

\* C10: a transfer request whose from_id equals to_id is answered with the
\* SameAccountTransfer category (error tag invalid_transfer) whatever the
\* amount, and changes no balance.
C10_SameIdTransferTagged ==
    (request.op = "transfer" /\ request.account_id = request.to_id)
    => /\ response.error = "invalid_transfer"
       /\ heap = request.old

\* C11: constructing an account with initial_balance < 0 fails and yields no
\* account; with initial_balance >= 0 it yields one more account, whose id is
\* the given id and whose balance is the given initial balance.
C11_ConstructChecksInitialBalance ==
    call.op = "__init__"
    => /\ call.amount < 0 => (~call.ok /\ heap = call.old)
       /\ call.amount >= 0
          => /\ call.ok
             /\ call.self = Len(call.old) + 1
             /\ heap = Append(call.old, [account_id |-> call.account_id,
                                         balance |-> call.amount])

C11_Witness ==
    /\ call.op = "__init__"
    /\ call.amount < 0
    /\ ~call.ok
    /\ Len(heap) = 1

\* the account the store of the last request's pre-state held under id
OldBalance(id) ==
    IF id \in DOMAIN request.old_accounts
    THEN request.old[request.old_accounts[id]].balance
    ELSE 0

\* C12: an account lookup never fails: for an identifier absent from the
\* store it creates an entry with balance 0 and reports 0; for a present one
\* it reports the current balance of the same account and changes no entry.
C12_LookupGetsOrCreates ==
    request.op = "get_account"
    => /\ response.status = 200
       /\ Len(response.body) = 1
       /\ response.body[1].account_id = request.account_id
       /\ request.account_id \notin DOMAIN request.old_accounts
          => /\ response.body[1].balance = 0
             /\ heap = Append(request.old, [account_id |-> request.account_id,
                                            balance |-> 0])
             /\ DOMAIN accounts = DOMAIN request.old_accounts \cup {request.account_id}
             /\ accounts[request.account_id] = Len(heap)
             /\ \A k \in DOMAIN request.old_accounts :
                    accounts[k] = request.old_accounts[k]
       /\ request.account_id \in DOMAIN request.old_accounts
          => /\ response.body[1].balance = OldBalance(request.account_id)
             /\ accounts = request.old_accounts
             /\ heap = request.old

C12_Witness ==
    /\ request.op = "get_account"
    /\ request.account_id \in DOMAIN request.old_accounts
    /\ OldBalance(request.account_id) > 0
    /\ DOMAIN accounts = Ids

\* C13: the store reset always succeeds and leaves no identifier in the
\* store, whatever it held; until the next successful deposit a lookup of any
\* identifier, funded before the reset or not, reports balance 0.
C13_ResetEmptiesStore ==
    /\ request.op = "clear_accounts"
       => (response.status = 200 /\ DOMAIN accounts = {})
    /\ (request.op = "get_account" /\ deposited = 0)
       => response.body[1].balance = 0

C13_Witness ==
    /\ request.op = "clear_accounts"
    /\ \E k \in DOMAIN request.old_accounts : OldBalance(k) > 0

\* the identifiers the last request names
RequestIds ==
    IF request.op = "transfer" THEN {request.account_id, request.to_id}
    ELSE IF request.op \in {"deposit", "withdraw", "get_account"}
    THEN {request.account_id}
    ELSE {}

\* the last request was turned down by a precondition of its endpoint
RejectedAtEndpoint ==
    \/ request.op \in {"deposit", "withdraw", "transfer"} /\ request.amount <= 0
    \/ request.op = "transfer" /\ request.account_id = request.to_id

\* C14 as stated: after any deposit, withdraw, transfer or lookup request,
\* accepted or not, every identifier the request names is in the store.
C14_EveryReferenceCreates ==
    RequestIds \subseteq DOMAIN accounts

\* C14 as amended: after a lookup, and after a deposit, withdraw or transfer
\* request that passes the preconditions of its endpoint (amount > 0 and, for
\* a transfer, from_id # to_id), whether the account operation then succeeds
\* or fails, every identifier the request names is in the store; a request an
\* endpoint precondition turns down creates no entry.
C14_AdmittedReferenceCreates ==
    /\ ~RejectedAtEndpoint => RequestIds \subseteq DOMAIN accounts
    /\ RejectedAtEndpoint => accounts = request.old_accounts

C14_Witness ==
    /\ request.op = "withdraw"
    /\ response.status = 409
    /\ request.account_id \notin DOMAIN request.old_accounts
    /\ request.account_id \in DOMAIN accounts

\* C15: a deposit, withdraw or transfer request with amount <= 0 and a
\* transfer with from_id = to_id are answered with status 422; a withdraw, or
\* a transfer between different identifiers, of a positive amount above the
\* source balance is answered with status 409 and tag insufficient_funds.
C15_StatusByFailure ==
    /\ RejectedAtEndpoint => response.status = 422
    /\ (/\ request.op \in {"withdraw", "transfer"}
        /\ ~RejectedAtEndpoint
        /\ request.amount > OldBalance(request.account_id))
       => (response.status = 409 /\ response.error = "insufficient_funds")
    /\ ~(response.status = 422 /\ response.error = "insufficient_funds")

C15_Witness ==
    /\ request.op = "transfer"
    /\ response.status = 409
    /\ OldBalance(request.account_id) > 0

\* C16: every error response of the deposit, withdraw and transfer endpoints
\* carries an error-category tag, a non-empty message and the name of the
\* endpoint as context; a deposit with amount <= 0 is answered with tag
\* invalid_amount and context deposit.
C16_ErrorResponseFormat ==
    (request.op \in {"deposit", "withdraw", "transfer"} /\ response.status # 200)
    => /\ response.error \in {"insufficient_funds", "invalid_transfer",
                              "invalid_amount", "contract_violation"}
       /\ response.message # <<>>
       /\ response.context = request.op
       /\ (request.op = "deposit" /\ request.amount <= 0)
          => response.error = "invalid_amount"

\* C19: the same-account precondition of transfer_to compares the two account
\* objects, not their ids: a transfer of an amount in (0, balance] between
\* two distinct objects that carry the same account_id succeeds and moves the
\* amount, and SameAccountTransfer is reported only for a transfer from an
\* object to itself.
C19_SameAccountIsIdentity ==
    call.op = "transfer_to"
    => /\ (/\ call.self # call.other
           /\ call.old[call.self].account_id = call.old[call.other].account_id
           /\ 0 < call.amount
           /\ call.amount <= call.old[call.self].balance)
          => /\ call.ok
             /\ heap[call.self].balance = call.old[call.self].balance - call.amount
             /\ heap[call.other].balance = call.old[call.other].balance + call.amount
       /\ (~call.ok /\ Category(call.message) = "invalid_transfer")
          => call.self = call.other

C19_Witness ==
    /\ call.op = "transfer_to"
    /\ call.ok
    /\ call.self # call.other
    /\ heap[call.self].account_id = heap[call.other].account_id
    /\ call.amount > 0

\* the accounts the last call was made on
Touched ==
    IF call.op = "transfer_to" THEN {call.self, call.other} ELSE {call.self}

\* C20: a deposit or withdraw on an account leaves every other account's
\* balance and every account's id unchanged, a transfer leaves unchanged
\* every account other than its source and destination, and a rejected
\* operation leaves every balance unchanged.
C20_OnlyInvolvedBalancesChange ==
    call.op \in {"deposit", "withdraw", "transfer_to"}
    => /\ DOMAIN heap = DOMAIN call.old
       /\ \A r \in DOMAIN heap : heap[r].account_id = call.old[r].account_id
       /\ \A r \in DOMAIN heap \ Touched : heap[r].balance = call.old[r].balance
       /\ ~call.ok => heap = call.old

C20_Witness ==
    /\ call.op = "transfer_to"
    /\ call.ok
    /\ \E r \in DOMAIN heap \ Touched : heap[r].balance > 0

\* C17: for an account with balance B and an amount > 0, deposit(amount)
\* followed by withdraw(amount) on the same account both succeed and return
\* the balance to B.
C17_DepositWithdrawRoundTrip ==
    (trip.stage = "withdrawn" /\ trip.amount > 0)
    => /\ trip.ok
       /\ call.ok
       /\ heap[trip.self].balance = trip.before

C17_Witness ==
    /\ trip.stage = "withdrawn"
    /\ trip.amount > 0
    /\ trip.before > 0
    /\ call.op = "withdraw"

PreconditionViolated(made) ==
    CASE made.op = "deposit" ->
            FirstViolated(decorator_order(
                deposit_require(made.old, made.self, made.amount)))
      [] made.op = "withdraw" ->
            FirstViolated(decorator_order(
                withdraw_require(made.old, made.self, made.amount)))
      [] made.op = "transfer_to" ->
            FirstViolated(decorator_order(
                transfer_to_require(made.old, made.self, made.other, made.amount)))
      [] OTHER -> NoViolation

\* C21: a deposit, withdraw or transfer_to call whose preconditions all hold
\* never ends in a postcondition violation or an invariant violation.
C21_PostChecksNeverTrigger ==
    (/\ call.op \in {"deposit", "withdraw", "transfer_to"}
     /\ PreconditionViolated(call) = NoViolation)
    => /\ call.ok
       /\ call.message = NoViolation

C21_Witness ==
    /\ call.op = "transfer_to"
    /\ PreconditionViolated(call) = NoViolation
    /\ call.ok
    /\ heap[call.self].balance > 0

\* the recorded call is a transfer whose preconditions held, so its body ran
TransferMutated ==
    /\ call.op = "transfer_to"
    /\ PreconditionViolated(call) = NoViolation

\* a balance of the two accounts of the recorded transfer is negative
TransferLeftNegative ==
    \/ heap[call.self].balance < 0
    \/ heap[call.other].balance < 0

C23_ClassifierGivesIntendedCategory ==
    raised.detail # NoDetail
    => /\ raised.detail.error \in {"insufficient_funds", "invalid_transfer",
                                   "invalid_amount", "contract_violation"}
       /\ raised.detail.context = raised.context
       /\ raised.detail.message = raised.message
       /\ raised.detail.error =
            IF Contains(raised.message, <<"Insufficient", "funds">>)
            THEN "insufficient_funds"
            ELSE IF Contains(raised.message, <<"same", "account">>)
            THEN "invalid_transfer"
            ELSE IF Contains(raised.message, <<"must", "be", "positive">>)
            THEN "invalid_amount"
            ELSE "contract_violation"
       /\ raised.detail.error = raised.intended

\* C24: every key of the store maps to an account whose account_id is the
\* key, distinct keys map to distinct accounts, and an entry keeps its account
\* and the account its id through every deposit, withdraw, transfer and
\* lookup request; only a reset removes entries.
C24_StoreKeysIdentifyAccounts ==
    /\ \A k \in DOMAIN accounts :
          /\ accounts[k] \in Refs
          /\ heap[accounts[k]].account_id = k
    /\ \A k1 \in DOMAIN accounts, k2 \in DOMAIN accounts :
          k1 # k2 => accounts[k1] # accounts[k2]
    /\ request.op \notin {"none", "clear_accounts"}
          => \A k \in DOMAIN request.old_accounts :
                /\ k \in DOMAIN accounts
                /\ accounts[k] = request.old_accounts[k]
                /\ heap[accounts[k]].account_id =
                      request.old[request.old_accounts[k]].account_id

C24_Witness ==
    /\ request.op = "transfer"
    /\ response.status = 200
    /\ Cardinality(DOMAIN request.old_accounts) = 2
    /\ DOMAIN accounts = DOMAIN request.old_accounts

\* C25: a withdraw or transfer request rejected by an endpoint precondition
\* reaches no account; one that is admitted calls the account model with a
\* positive amount and, for a transfer, two different accounts, so the only
\* violation the model reports to the handler is insufficient funds.
C25_HandlersSeeOnlyInsufficientFunds ==
    request.op \in {"withdraw", "transfer"}
    => /\ RejectedAtEndpoint
          => /\ call = NoCall
             /\ accounts = request.old_accounts
       /\ ~RejectedAtEndpoint
          => /\ call.op \in {"withdraw", "transfer_to"}
             /\ call.amount > 0
             /\ call.op = "transfer_to" => call.self # call.other
             /\ ~call.ok
                => /\ call.message \in {WithdrawFundsMsg, TransferFundsMsg}
                   /\ Category(call.message) = "insufficient_funds"

C25_Witness ==
    /\ request.op = "transfer"
    /\ ~RejectedAtEndpoint
    /\ call.op = "transfer_to"
    /\ ~call.ok
    /\ call.message = TransferFundsMsg

\* C26: a deposit, withdraw or transfer request with a non-positive amount,
\* or a transfer with equal from_id and to_id, is answered 422 and leaves the
\* store as it was: no account is created and no balance changes.
C26_RejectedRequestChangesNothing ==
    RejectedAtEndpoint
    => /\ response.status = 422
       /\ accounts = request.old_accounts
       /\ heap = request.old

C26_Witness ==
    /\ request.op = "transfer"
    /\ request.account_id = request.to_id
    /\ request.amount > 0
    /\ request.account_id \notin DOMAIN accounts
    /\ DOMAIN accounts # {}
    /\ response.status = 422

\* the checks of the sequence that do not hold
Failing(checks) == {i \in DOMAIN checks : ~checks[i].holds}

\* C27: for every account and every amount, at most one of the preconditions
\* of withdraw fails, and at most one of those of transfer_to to a distinct
\* account; the category reported is therefore the same in either order of
\* evaluation.
C27_PositivityAndSufficiencyExclusive ==
    \A self \in Refs, amount \in Amounts :
        /\ LET checks == withdraw_require(heap, self, amount)
           IN /\ Cardinality(Failing(checks)) <= 1
              /\ Category(FirstViolated(checks))
                    = Category(FirstViolated(decorator_order(checks)))
        /\ \A other \in Refs \ {self} :
              LET checks == transfer_to_require(heap, self, other, amount)
              IN /\ Cardinality(Failing(checks)) <= 1
                 /\ Category(FirstViolated(checks))
                       = Category(FirstViolated(decorator_order(checks)))

C27_Witness ==
    /\ call.op = "withdraw"
    /\ call.amount <= 0
    /\ ~call.ok
    /\ Category(call.message) = "invalid_amount"
    /\ call.old[call.self].balance = 0

====
